---- MODULE Spec2Model ----
(***************************************************************************)
(* TerminalProcess (vs/workbench/parts/terminal/node/terminalProcess.ts):  *)
(* the wrapper around one node-pty handle.  The model keeps the fields of  *)
(* the object, the timers it schedules, the state of the pty handle, the   *)
(* four emitters, and a log of every fire() call with the fact whether a   *)
(* listener received it.  Time is a discrete clock; a timer callback runs  *)
(* when the clock has reached its deadline, and the clock does not pass a  *)
(* pending deadline.                                                       *)
(***************************************************************************)
EXTENDS Integers, Sequences, FiniteSets, TLC

\* ---------------------------------------------------------------- bounds
MaxTicks == 10
MaxData == 2
MaxExitCode == 1
MaxDim == 2

\* ------------------------------------------------------ program constants
CloseDelay == 250
PidDelay == 500
TitlePollInterval == 200

\* `private _exitCode: number;` has no initialiser: the field is undefined
\* until the exit handler assigns it.  Exit codes are >= 0.
Undefined == 0 - 1

\* `private _closeTimeout: number;` has no initialiser either: 0 stands for
\* the falsy undefined, a timer handle is a positive number.
NoHandle == 0

\* ------------------------------------------------------------- value sets
Streams == {"Data", "Exit", "ProcessId", "Title"}
Titles == {"bash", "vim"}
Chunks == {"a", "b"}
Inputs == {"x", "y"}
ExitCodes == 0..MaxExitCode
Dims == (0 - MaxDim)..MaxDim
PtyPid == 4242
NoTime == 0 - 1

\* A call with its arguments: the caller's input()/resize(), and the
\* write/resize/kill the pty handle receives.
Call(name, text, cols, rows) == [name |-> name, text |-> text, cols |-> cols, rows |-> rows]
NoCall == Call("none", "", 0, 0)

Max(a, b) == IF a >= b THEN a ELSE b
Min(a, b) == IF a <= b THEN a ELSE b

RECURSIVE GCD(_, _)
GCD(a, b) == IF b = 0 THEN a ELSE GCD(b, a % b)

\* The clock advances in steps that divide every delay of the program, so
\* that every deadline is a reachable instant.
TimeStep == GCD(GCD(CloseDelay, PidDelay), TitlePollInterval)
MaxTime == MaxTicks * TimeStep

\* Ages are measured up to one step beyond the close delay.
AgeCap == CloseDelay + TimeStep
Older(age) == IF age = NoTime THEN NoTime ELSE Min(age + TimeStep, AgeCap)

\* ------------------------------------------------------------ constructor
MaxPathLen == 3

\* A path is a sequence of tokens: separators and names.
Separators == {"/", "\\"}
PathTokens == Separators \cup {"sh"}
Paths == UNION {[1..n -> PathTokens] : n \in 0..MaxPathLen}
Platforms == {"win32", "linux", "darwin"}
Cwds == {"/", "/home"}
Envs == {"env0", "env1"}
ArgLists == {<<>>, <<"-l">>}

\* path.basename: the trailing separators are dropped, and what follows the
\* last separator left is the base name.
RECURSIVE StripTrailing(_)
StripTrailing(path) ==
    IF path = <<>> THEN <<>>
    ELSE IF path[Len(path)] \in Separators
         THEN StripTrailing(SubSeq(path, 1, Len(path) - 1))
         ELSE path

RECURSIVE LastSegment(_)
LastSegment(path) ==
    IF path = <<>> THEN <<>>
    ELSE IF path[Len(path)] \in Separators THEN <<>>
         ELSE Append(LastSegment(SubSeq(path, 1, Len(path) - 1)), path[Len(path)])

Basename(path) == LastSegment(StripTrailing(path))

XtermLabel == <<"xterm-256color">>

\* shellName of the constructor
ShellName_NoBasename(platform, executable) ==
    IF platform = "win32" THEN executable ELSE XtermLabel

ShellName(platform, executable) ==
    IF platform = "win32" THEN Basename(executable) ELSE XtermLabel

\* options: pty.IPtyForkOptions of the constructor
ForkOptions(platform, executable, cwd, cols, rows, env) ==
    [name |-> ShellName(platform, executable), cwd |-> cwd, env |-> env,
     cols |-> cols, rows |-> rows]

\* The constructor call: what it was given, what pty.spawn was given, and
\* whether pty.spawn returned a handle ("ok") or threw ("failed").
CtorCall(state, platform, executable, args, cwd, cols, rows, env) ==
    [state |-> state, platform |-> platform, executable |-> executable,
     args |-> args, cwd |-> cwd, cols |-> cols, rows |-> rows, env |-> env,
     spawnFile |-> executable, spawnArgs |-> args,
     options |-> ForkOptions(platform, executable, cwd, cols, rows, env)]

NotConstructed ==
    [state |-> "new", platform |-> "", executable |-> <<>>, args |-> <<>>,
     cwd |-> "", cols |-> 0, rows |-> 0, env |-> "",
     spawnFile |-> <<>>, spawnArgs |-> <<>>,
     options |-> [name |-> <<>>, cwd |-> "", env |-> "", cols |-> 0, rows |-> 0]]

DefaultCtor == CtorCall("ok", "linux", <<"/", "sh">>, <<>>, "/", MaxDim, MaxDim, "env0")

NoEffects == [data |-> <<>>, close |-> <<>>]

VARIABLES
    now,            \* the clock
    exitCode,       \* this._exitCode
    closeTimeout,   \* this._closeTimeout: handle of the last close timer
    currentTitle,   \* this._currentTitle
    closeTimers,    \* pending setTimeout(..., 250) timers, by handle
    pidTimer,       \* the setTimeout(..., 500) of the constructor is pending
    titleNext,      \* next deadline of the setInterval(..., 200); 0 = cleared
    ptyTitle,       \* this._ptyProcess.process
    ptyExited,      \* the handle has emitted 'exit'
    ptyKills,       \* number of this._ptyProcess.kill() calls
    ptyCall,        \* the write/resize call the handle received in the last step
    listeners,      \* number of listeners attached to each emitter
    log,            \* every fire() call, in order
    rawData,        \* every 'data' event of the handle, in order
    closeCount,     \* number of runs of the close timer's callback
    reported,       \* code of the handle's 'exit' event seen before the first close
    shutdownAge,    \* time since the most recent shutdown() call, up to AgeCap
    dataAge,        \* time since the most recent 'data' event that came while the exit was pending, up to AgeCap
    call,           \* the input()/resize() call of the last step, with its arguments
    ctor,           \* the constructor call: its arguments, the pty.spawn call, the outcome
    handlers,       \* the events of the handle a handler is registered for
    effects         \* order of the effects of the last 'data' handler run and of the last close callback run

vars == <<now, exitCode, closeTimeout, currentTitle, closeTimers, pidTimer,
          titleNext, ptyTitle, ptyExited, ptyKills, ptyCall, listeners,
          log, rawData, closeCount, reported, shutdownAge, dataAge, call,
          ctor, handlers, effects>>

\* ----------------------------------------------------------------- Emitter
\* vs/base/common/event Emitter: fire() delivers to the listeners attached
\* at that moment; an emitter without listeners, or a disposed one, drops
\* the event.
Fire(lst, lg, s, text, num) ==
    Append(lg, [stream |-> s, text |-> text, num |-> num,
                delivered |-> lst[s] > 0])

EmitterDispose(lst, s) == [lst EXCEPT ![s] = 0]

\* dispose(): the four emitters are disposed.
Dispose_SkipPid(lst) ==
    EmitterDispose(EmitterDispose(EmitterDispose(lst, "Data"), "Exit"), "Title")

Dispose(lst) ==
    EmitterDispose(EmitterDispose(EmitterDispose(EmitterDispose(
        lst, "Data"), "Exit"), "ProcessId"), "Title")

\* --------------------------------------------------------------- helpers
Observed == SelectSeq(log, LAMBDA e : e.delivered)
ObservedOn(s) == SelectSeq(Observed, LAMBDA e : e.stream = s)
FiredOn(s) == SelectSeq(log, LAMBDA e : e.stream = s)

\* clearTimeout(handle)
ClearTimeout(timers, handle) == timers \ {handle}

\* _queueProcessExit(): the new handle and the pending close timers.  A
\* handle is identified by its deadline.
QueueProcessExit_LongDelay(handle, timers) ==
    LET cleared == IF handle # NoHandle THEN ClearTimeout(timers, handle) ELSE timers
    IN  [handle |-> now + PidDelay, timers |-> cleared \cup {now + PidDelay}]

QueueProcessExit_NoClear(handle, timers) ==
    [handle |-> now + CloseDelay, timers |-> timers \cup {now + CloseDelay}]

QueueProcessExit(handle, timers) ==
    LET cleared == IF handle # NoHandle THEN ClearTimeout(timers, handle) ELSE timers
    IN  [handle |-> now + CloseDelay, timers |-> cleared \cup {now + CloseDelay}]

ExitPending == closeTimers # {} /\ closeCount = 0

\* _sendProcessTitle(): the new title and the log.
SendProcessTitle(lg) ==
    [title |-> ptyTitle, log |-> Fire(listeners, lg, "Title", ptyTitle, 0)]

\* ------------------------------------------------------------------- Init
\* The state after `new TerminalProcess(...)` has returned and the caller
\* has attached one listener to each of the four events in the same turn:
\* the handlers are registered, both timers of the constructor are pending,
\* and _setupTitlePolling() has sent the title once, to no listener.
Init ==
    /\ now = 0
    /\ exitCode = Undefined
    /\ closeTimeout = NoHandle
    /\ ptyTitle \in Titles
    /\ currentTitle = ptyTitle
    /\ closeTimers = {}
    /\ pidTimer = TRUE
    /\ titleNext = TitlePollInterval
    /\ ptyExited = FALSE
    /\ ptyKills = 0
    /\ ptyCall = NoCall
    /\ listeners = [s \in Streams |-> 1]
    /\ log = <<[stream |-> "Title", text |-> ptyTitle, num |-> 0, delivered |-> FALSE]>>
    /\ rawData = <<>>
    /\ closeCount = 0
    /\ reported = Undefined
    /\ shutdownAge = NoTime
    /\ dataAge = NoTime
    /\ call = NoCall
    /\ ctor = DefaultCtor
    /\ handlers = {"data", "exit"}
    /\ effects = NoEffects

\* ------------------------------------------------------ handle callbacks
\* this._ptyProcess.on('data', ...)
OnPtyData_NoRearm(data) ==
    /\ "data" \in handlers
    /\ Len(rawData) < MaxData
    /\ log' = Fire(listeners, log, "Data", data, 0)
    /\ rawData' = Append(rawData, [chunk |-> data, pending |-> ExitPending,
                                   closed |-> closeCount > 0])
    /\ dataAge' = IF ExitPending THEN 0 ELSE dataAge
    /\ call' = NoCall
    /\ ptyCall' = NoCall
    /\ UNCHANGED <<now, exitCode, closeTimeout, closeTimers, currentTitle, pidTimer,
                   titleNext, ptyTitle, ptyExited, ptyKills, listeners,
                   closeCount, reported, shutdownAge>>
    /\ effects' = [effects EXCEPT !.data = <<"fire">>]
    /\ UNCHANGED <<ctor, handlers>>

OnPtyData_AlwaysQueue(data) ==
    /\ "data" \in handlers
    /\ Len(rawData) < MaxData
    /\ log' = Fire(listeners, log, "Data", data, 0)
    /\ LET q == QueueProcessExit(closeTimeout, closeTimers)
       IN  /\ closeTimeout' = q.handle
           /\ closeTimers' = q.timers
    /\ rawData' = Append(rawData, [chunk |-> data, pending |-> ExitPending,
                                   closed |-> closeCount > 0])
    /\ dataAge' = IF ExitPending THEN 0 ELSE dataAge
    /\ call' = NoCall
    /\ ptyCall' = NoCall
    /\ UNCHANGED <<now, exitCode, currentTitle, pidTimer, titleNext, ptyTitle,
                   ptyExited, ptyKills, listeners, closeCount,
                   reported, shutdownAge>>
    /\ effects' = [effects EXCEPT !.data = <<"fire", "queueProcessExit">>]
    /\ UNCHANGED <<ctor, handlers>>

OnPtyData_DropWhilePending(data) ==
    /\ "data" \in handlers
    /\ Len(rawData) < MaxData
    /\ IF closeTimeout # NoHandle
       THEN LET q == QueueProcessExit(closeTimeout,
                                      ClearTimeout(closeTimers, closeTimeout))
            IN  /\ closeTimeout' = q.handle
                /\ closeTimers' = q.timers
                /\ log' = log
       ELSE /\ log' = Fire(listeners, log, "Data", data, 0)
            /\ UNCHANGED <<closeTimeout, closeTimers>>
    /\ rawData' = Append(rawData, [chunk |-> data, pending |-> ExitPending,
                                   closed |-> closeCount > 0])
    /\ dataAge' = IF ExitPending THEN 0 ELSE dataAge
    /\ call' = NoCall
    /\ ptyCall' = NoCall
    /\ UNCHANGED <<now, exitCode, currentTitle, pidTimer, titleNext, ptyTitle,
                   ptyExited, ptyKills, listeners, closeCount,
                   reported, shutdownAge>>
    /\ effects' = [effects EXCEPT !.data = IF closeTimeout # NoHandle
                                          THEN <<"clearTimeout", "queueProcessExit">>
                                          ELSE <<"fire">>]
    /\ UNCHANGED <<ctor, handlers>>

OnPtyData_ClearOnly(data) ==
    /\ "data" \in handlers
    /\ Len(rawData) < MaxData
    /\ log' = Fire(listeners, log, "Data", data, 0)
    /\ closeTimers' = IF closeTimeout # NoHandle
                      THEN ClearTimeout(closeTimers, closeTimeout)
                      ELSE closeTimers
    /\ rawData' = Append(rawData, [chunk |-> data, pending |-> ExitPending,
                                   closed |-> closeCount > 0])
    /\ dataAge' = IF ExitPending THEN 0 ELSE dataAge
    /\ call' = NoCall
    /\ ptyCall' = NoCall
    /\ UNCHANGED <<now, exitCode, closeTimeout, currentTitle, pidTimer, titleNext,
                   ptyTitle, ptyExited, ptyKills, listeners, closeCount,
                   reported, shutdownAge>>
    /\ effects' = [effects EXCEPT !.data = IF closeTimeout # NoHandle
                                          THEN <<"fire", "clearTimeout">>
                                          ELSE <<"fire">>]
    /\ UNCHANGED <<ctor, handlers>>

OnPtyData(data) ==
    /\ "data" \in handlers
    /\ Len(rawData) < MaxData
    /\ log' = Fire(listeners, log, "Data", data, 0)
    /\ IF closeTimeout # NoHandle
       THEN LET q == QueueProcessExit(closeTimeout,
                                      ClearTimeout(closeTimers, closeTimeout))
            IN  /\ closeTimeout' = q.handle
                /\ closeTimers' = q.timers
       ELSE UNCHANGED <<closeTimeout, closeTimers>>
    /\ rawData' = Append(rawData, [chunk |-> data, pending |-> ExitPending,
                                   closed |-> closeCount > 0])
    /\ dataAge' = IF ExitPending THEN 0 ELSE dataAge
    /\ call' = NoCall
    /\ ptyCall' = NoCall
    /\ UNCHANGED <<now, exitCode, currentTitle, pidTimer, titleNext, ptyTitle,
                   ptyExited, ptyKills, listeners, closeCount,
                   reported, shutdownAge>>
    /\ effects' = [effects EXCEPT !.data = IF closeTimeout # NoHandle
                                          THEN <<"fire", "clearTimeout", "queueProcessExit">>
                                          ELSE <<"fire">>]
    /\ UNCHANGED <<ctor, handlers>>

\* this._ptyProcess.on('exit', ...); the handle emits 'exit' once.
OnPtyExit_NoRecord(code) ==
    /\ "exit" \in handlers
    /\ ~ptyExited
    /\ ptyExited' = TRUE
    /\ LET q == QueueProcessExit(closeTimeout, closeTimers)
       IN  /\ closeTimeout' = q.handle
           /\ closeTimers' = q.timers
    /\ reported' = IF closeCount = 0 THEN code ELSE reported
    /\ call' = NoCall
    /\ ptyCall' = NoCall
    /\ UNCHANGED <<now, exitCode, currentTitle, pidTimer, titleNext, ptyTitle, ptyKills,
                   listeners, log, rawData, closeCount, shutdownAge,
                   dataAge>>
    /\ UNCHANGED <<ctor, handlers, effects>>

OnPtyExit(code) ==
    /\ "exit" \in handlers
    /\ ~ptyExited
    /\ ptyExited' = TRUE
    /\ exitCode' = code
    /\ LET q == QueueProcessExit(closeTimeout, closeTimers)
       IN  /\ closeTimeout' = q.handle
           /\ closeTimers' = q.timers
    /\ reported' = IF closeCount = 0 THEN code ELSE reported
    /\ call' = NoCall
    /\ ptyCall' = NoCall
    /\ UNCHANGED <<now, currentTitle, pidTimer, titleNext, ptyTitle, ptyKills,
                   listeners, log, rawData, closeCount, shutdownAge,
                   dataAge>>
    /\ UNCHANGED <<ctor, handlers, effects>>

\* The foreground process of the pty changes: this._ptyProcess.process
\* returns another value from now on.
PtyTitleChanges(t) ==
    /\ ctor.state = "ok"
    /\ t # ptyTitle
    /\ ptyTitle' = t
    /\ call' = NoCall
    /\ ptyCall' = NoCall
    /\ UNCHANGED <<now, exitCode, closeTimeout, currentTitle, closeTimers, pidTimer,
                   titleNext, ptyExited, ptyKills, listeners, log,
                   rawData, closeCount, reported, shutdownAge, dataAge>>
    /\ UNCHANGED <<ctor, handlers, effects>>

\* ------------------------------------------------------- caller operations
\* shutdown()
Shutdown_KillNow ==
    /\ ctor.state = "ok"
    /\ LET q == QueueProcessExit(closeTimeout, closeTimers)
       IN  /\ closeTimeout' = q.handle
           /\ closeTimers' = q.timers
    /\ shutdownAge' = 0
    /\ call' = NoCall
    /\ ptyKills' = ptyKills + 1
    /\ ptyCall' = Call("kill", "", 0, 0)
    /\ UNCHANGED <<now, exitCode, currentTitle, pidTimer, titleNext, ptyTitle,
                   ptyExited, listeners, log, rawData, closeCount,
                   reported, dataAge>>
    /\ UNCHANGED <<ctor, handlers, effects>>

Shutdown ==
    /\ ctor.state = "ok"
    /\ LET q == QueueProcessExit(closeTimeout, closeTimers)
       IN  /\ closeTimeout' = q.handle
           /\ closeTimers' = q.timers
    /\ shutdownAge' = 0
    /\ call' = NoCall
    /\ ptyCall' = NoCall
    /\ UNCHANGED <<now, exitCode, currentTitle, pidTimer, titleNext, ptyTitle,
                   ptyExited, ptyKills, listeners, log, rawData, closeCount,
                   reported, dataAge>>
    /\ UNCHANGED <<ctor, handlers, effects>>

\* input(data)
Input_Echo(data) ==
    /\ ctor.state = "ok"
    /\ ptyCall' = Call("write", data, 0, 0)
    /\ call' = Call("input", data, 0, 0)
    /\ log' = Fire(listeners, log, "Data", data, 0)
    /\ UNCHANGED <<now, exitCode, closeTimeout, currentTitle, closeTimers, pidTimer,
                   titleNext, ptyTitle, ptyExited, ptyKills, listeners,
                   rawData, closeCount, reported, shutdownAge, dataAge>>
    /\ UNCHANGED <<ctor, handlers, effects>>

Input(data) ==
    /\ ctor.state = "ok"
    /\ ptyCall' = Call("write", data, 0, 0)
    /\ call' = Call("input", data, 0, 0)
    /\ UNCHANGED <<now, exitCode, closeTimeout, currentTitle, closeTimers, pidTimer,
                   titleNext, ptyTitle, ptyExited, ptyKills, listeners, log,
                   rawData, closeCount, reported, shutdownAge, dataAge>>
    /\ UNCHANGED <<ctor, handlers, effects>>

\* resize(cols, rows)
Resize_ClampToZero(cols, rows) ==
    /\ ctor.state = "ok"
    /\ ptyCall' = Call("resize", "", Max(cols, 0), Max(rows, 0))
    /\ call' = Call("resize", "", cols, rows)
    /\ UNCHANGED <<now, exitCode, closeTimeout, currentTitle, closeTimers, pidTimer,
                   titleNext, ptyTitle, ptyExited, ptyKills, listeners, log,
                   rawData, closeCount, reported, shutdownAge, dataAge>>
    /\ UNCHANGED <<ctor, handlers, effects>>

Resize(cols, rows) ==
    /\ ctor.state = "ok"
    /\ ptyCall' = Call("resize", "", Max(cols, 1), Max(rows, 1))
    /\ call' = Call("resize", "", cols, rows)
    /\ UNCHANGED <<now, exitCode, closeTimeout, currentTitle, closeTimers, pidTimer,
                   titleNext, ptyTitle, ptyExited, ptyKills, listeners, log,
                   rawData, closeCount, reported, shutdownAge, dataAge>>
    /\ UNCHANGED <<ctor, handlers, effects>>

\* ------------------------------------------------------------------ timers
\* setTimeout(() => this._sendProcessId(), 500)
PidTimerFires ==
    /\ pidTimer
    /\ now >= PidDelay
    /\ pidTimer' = FALSE
    /\ log' = Fire(listeners, log, "ProcessId", "", PtyPid)
    /\ call' = NoCall
    /\ ptyCall' = NoCall
    /\ UNCHANGED <<now, exitCode, closeTimeout, currentTitle, closeTimers, titleNext,
                   ptyTitle, ptyExited, ptyKills, listeners, rawData, closeCount,
                   reported, shutdownAge, dataAge>>
    /\ UNCHANGED <<ctor, handlers, effects>>

\* The callback of setInterval(..., 200) in _setupTitlePolling().
TitlePollFires_Always ==
    /\ titleNext # 0
    /\ now >= titleNext
    /\ titleNext' = titleNext + TitlePollInterval
    /\ LET sent == SendProcessTitle(log)
       IN  /\ currentTitle' = sent.title
           /\ log' = sent.log
    /\ call' = NoCall
    /\ ptyCall' = NoCall
    /\ UNCHANGED <<now, exitCode, closeTimeout, closeTimers, pidTimer, ptyTitle,
                   ptyExited, ptyKills, listeners, rawData, closeCount, reported,
                   shutdownAge, dataAge>>
    /\ UNCHANGED <<ctor, handlers, effects>>

TitlePollFires ==
    /\ titleNext # 0
    /\ now >= titleNext
    /\ titleNext' = titleNext + TitlePollInterval
    /\ IF currentTitle # ptyTitle
       THEN LET sent == SendProcessTitle(log)
            IN  /\ currentTitle' = sent.title
                /\ log' = sent.log
       ELSE UNCHANGED <<currentTitle, log>>
    /\ call' = NoCall
    /\ ptyCall' = NoCall
    /\ UNCHANGED <<now, exitCode, closeTimeout, closeTimers, pidTimer, ptyTitle,
                   ptyExited, ptyKills, listeners, rawData, closeCount, reported,
                   shutdownAge, dataAge>>
    /\ UNCHANGED <<ctor, handlers, effects>>

\* The callback of the setTimeout(..., 250) in _queueProcessExit().  The
\* field _closeTimeout keeps the handle of the timer that has run.
CloseTimeoutFires_NoDispose(h) ==
    /\ h \in closeTimers
    /\ now >= h
    /\ closeTimers' = closeTimers \ {h}
    /\ ptyKills' = ptyKills + 1
    /\ ptyCall' = Call("kill", "", 0, 0)
    /\ log' = Fire(listeners, log, "Exit", "", exitCode)
    /\ closeCount' = closeCount + 1
    /\ call' = NoCall
    /\ UNCHANGED <<now, exitCode, closeTimeout, currentTitle, pidTimer, titleNext,
                   ptyTitle, ptyExited, listeners, rawData, reported, shutdownAge,
                   dataAge>>
    /\ effects' = [effects EXCEPT !.close = <<"kill", "fire">>]
    /\ UNCHANGED <<ctor, handlers>>

CloseTimeoutFires(h) ==
    /\ h \in closeTimers
    /\ now >= h
    /\ closeTimers' = closeTimers \ {h}
    /\ ptyKills' = ptyKills + 1
    /\ ptyCall' = Call("kill", "", 0, 0)
    /\ log' = Fire(listeners, log, "Exit", "", exitCode)
    /\ listeners' = Dispose(listeners)
    /\ closeCount' = closeCount + 1
    /\ call' = NoCall
    /\ UNCHANGED <<now, exitCode, closeTimeout, currentTitle, pidTimer, titleNext,
                   ptyTitle, ptyExited, rawData, reported, shutdownAge,
                   dataAge>>
    /\ effects' = [effects EXCEPT !.close = <<"kill", "fire", "dispose">>]
    /\ UNCHANGED <<ctor, handlers>>

\* Time passes, up to the next deadline: a due timer runs first.
Tick ==
    /\ now + TimeStep <= MaxTime
    /\ \A h \in closeTimers : h > now
    /\ pidTimer => PidDelay > now
    /\ titleNext # 0 => titleNext > now
    /\ now' = now + TimeStep
    /\ shutdownAge' = Older(shutdownAge)
    /\ dataAge' = Older(dataAge)
    /\ call' = NoCall
    /\ ptyCall' = NoCall
    /\ UNCHANGED <<exitCode, closeTimeout, currentTitle, closeTimers, pidTimer,
                   titleNext, ptyTitle, ptyExited, ptyKills, listeners, log,
                   rawData, closeCount, reported>>
    /\ UNCHANGED <<ctor, handlers, effects>>



\* ------------------------------------------------------------ construction
\* Before `new TerminalProcess(...)`: the field initialisers only.
InitNew ==
    /\ now = 0
    /\ exitCode = Undefined
    /\ closeTimeout = NoHandle
    /\ ptyTitle = ""
    /\ currentTitle = ""
    /\ closeTimers = {}
    /\ pidTimer = FALSE
    /\ titleNext = 0
    /\ ptyExited = FALSE
    /\ ptyKills = 0
    /\ ptyCall = NoCall
    /\ listeners = [s \in Streams |-> 0]
    /\ log = <<>>
    /\ rawData = <<>>
    /\ closeCount = 0
    /\ reported = Undefined
    /\ shutdownAge = NoTime
    /\ dataAge = NoTime
    /\ call = NoCall
    /\ ctor = NotConstructed
    /\ handlers = {}
    /\ effects = NoEffects

\* The constructor.  pty.spawn either returns a handle whose title is
\* `title`, or throws; when it throws the constructor ends there.  When it
\* returns, the caller attaches its listeners in the same turn.
Construct_SwallowSpawnError(platform, executable, args, cwd, cols, rows, env, spawnOk, title) ==
    /\ ctor.state = "new"
    /\ ctor' = CtorCall(IF spawnOk THEN "ok" ELSE "failed",
                        platform, executable, args, cwd, cols, rows, env)
    /\ handlers' = IF spawnOk THEN {"data", "exit"} ELSE {}
    /\ pidTimer' = TRUE
    /\ ptyTitle' = title
    /\ LET sent == Fire(listeners, log, "Title", title, 0)
       IN  /\ currentTitle' = title
           /\ log' = sent
    /\ titleNext' = now + TitlePollInterval
    /\ listeners' = IF spawnOk THEN [s \in Streams |-> 1] ELSE listeners
    /\ UNCHANGED <<now, exitCode, closeTimeout, closeTimers, ptyExited, ptyKills,
                   ptyCall, rawData, closeCount, reported, shutdownAge, dataAge,
                   call, effects>>

Construct(platform, executable, args, cwd, cols, rows, env, spawnOk, title) ==
    /\ ctor.state = "new"
    /\ ctor' = CtorCall(IF spawnOk THEN "ok" ELSE "failed",
                        platform, executable, args, cwd, cols, rows, env)
    /\ IF spawnOk
       THEN /\ handlers' = {"data", "exit"}
            /\ pidTimer' = TRUE
            /\ ptyTitle' = title
            /\ LET sent == Fire(listeners, log, "Title", title, 0)
               IN  /\ currentTitle' = title
                   /\ log' = sent
            /\ titleNext' = now + TitlePollInterval
            /\ listeners' = [s \in Streams |-> 1]
       ELSE UNCHANGED <<handlers, pidTimer, ptyTitle, currentTitle, log,
                        titleNext, listeners>>
    /\ UNCHANGED <<now, exitCode, closeTimeout, closeTimers, ptyExited, ptyKills,
                   ptyCall, rawData, closeCount, reported, shutdownAge, dataAge,
                   call, effects>>

\* The session with its pty and its timers: the handle's events, the title
\* of the foreground process, shutdown() and the three timers.
Next ==
    \/ \E data \in Chunks : OnPtyData(data)
    \/ \E code \in ExitCodes : OnPtyExit(code)
    \/ \E t \in Titles : PtyTitleChanges(t)
    \/ Shutdown
    \/ PidTimerFires
    \/ TitlePollFires
    \/ \E h \in closeTimers : CloseTimeoutFires(h)
    \/ Tick

Spec == Init /\ [][Next]_vars

\* The caller's side: input(), resize() and shutdown() on a session whose
\* pty is quiet, with the three timers.
NextIO ==
    \/ \E data \in Inputs : Input(data)
    \/ \E cols \in Dims, rows \in Dims : Resize(cols, rows)
    \/ Shutdown
    \/ PidTimerFires
    \/ TitlePollFires
    \/ \E h \in closeTimers : CloseTimeoutFires(h)
    \/ Tick

SpecIO == Init /\ [][NextIO]_vars

\* Construction, with a spawn that may fail, followed by the handle's
\* events and the timers.
NextCtor ==
    \/ \E spawnOk \in BOOLEAN, title \in Titles :
          Construct("linux", <<"/", "sh">>, <<>>, "/", MaxDim, MaxDim, "env0",
                    spawnOk, title)
    \/ \E data \in Chunks : OnPtyData(data)
    \/ \E code \in ExitCodes : OnPtyExit(code)
    \/ PidTimerFires
    \/ TitlePollFires
    \/ \E h \in closeTimers : CloseTimeoutFires(h)
    \/ Tick

SpecCtor == InitNew /\ [][NextCtor]_vars

\* The constructor alone, over all launch configurations.
NextSpawn ==
    /\ ctor.state = "new"
    /\ \E platform \in Platforms, executable \in Paths, args \in ArgLists,
          cwd \in Cwds, cols \in Dims, rows \in Dims, env \in Envs,
          spawnOk \in BOOLEAN, title \in Titles :
             Construct(platform, executable, args, cwd, cols, rows, env, spawnOk, title)

SpecSpawn == InitNew /\ [][NextSpawn]_vars

\* The session when the handle's events and the shutdown() calls stop in
\* time: none comes later than CloseDelay before the end of the clock.  The
\* event loop runs every due timer, and time goes on.
StillActive == now + CloseDelay <= MaxTime

NextLive ==
    \/ StillActive /\ \E data \in Chunks : OnPtyData(data)
    \/ StillActive /\ \E code \in ExitCodes : OnPtyExit(code)
    \/ StillActive /\ Shutdown
    \/ PidTimerFires
    \/ TitlePollFires
    \/ \E h \in closeTimers : CloseTimeoutFires(h)
    \/ Tick

SpecLive ==
    /\ Init
    /\ [][NextLive]_vars
    /\ WF_vars(Tick)
    /\ WF_vars(PidTimerFires)
    /\ WF_vars(TitlePollFires)
    /\ WF_vars(\E h \in closeTimers : CloseTimeoutFires(h))

\* ------------------------------------------------------------ observations
\* Positions in the log of the events a listener of stream s received.
DeliveredAt(s) == {i \in DOMAIN log : log[i].stream = s /\ log[i].delivered}
ExitObserved == DeliveredAt("Exit") # {}
Closed == closeCount > 0

\* Position in the log of the fire() call made for the k-th 'data' event.
DataPos(k) ==
    CHOOSE i \in DOMAIN log :
        /\ log[i].stream = "Data"
        /\ Cardinality({j \in 1..i : log[j].stream = "Data"}) = k

PendingChunks == {k \in DOMAIN rawData : rawData[k].pending}

\* Time since the most recent of: the last shutdown() call, the last 'data'
\* event that came while the exit was pending.
QuietFor == IF dataAge = NoTime THEN shutdownAge ELSE Min(shutdownAge, dataAge)

\* ------------------------------------------------------------------ claims

\* C1: a listener attached since construction receives the Exit event at
\* most once, and receives no Data event after the Exit event, whatever the
\* order of 'data' and 'exit' events, shutdown() calls and timers.
C1_ExitOnceNoDataAfter ==
    /\ Cardinality(DeliveredAt("Exit")) <= 1
    /\ \A i \in DeliveredAt("Exit") : \A j \in DeliveredAt("Data") : j < i

\* A 'data' event came after the Exit event was delivered, and the close
\* callback has run a second time.
C1_Witness ==
    /\ ExitObserved
    /\ closeCount >= 2
    /\ \E k \in DOMAIN rawData : rawData[k].closed

\* C2: every chunk that arrives while the exit is pending is delivered on
\* Data, unchanged, before Exit is delivered; and Exit is delivered no less
\* than CloseDelay after the most recent such arrival.
C2_DebounceAbsorbsTrailingData ==
    /\ [](ExitObserved =>
            \A k \in PendingChunks :
                /\ log[DataPos(k)].delivered
                /\ log[DataPos(k)].text = rawData[k].chunk
                /\ \A i \in DeliveredAt("Exit") : DataPos(k) < i)
    /\ [][(~ExitObserved /\ ExitObserved') =>
            (dataAge = NoTime \/ dataAge >= CloseDelay)]_vars

\* After a natural exit and no shutdown(), two chunks have arrived while the
\* exit was pending, and Exit has been delivered.
C2_Witness ==
    /\ ExitObserved
    /\ reported # Undefined
    /\ shutdownAge = NoTime
    /\ Cardinality(PendingChunks) >= 2

C4_PidOnceBeforeExit ==
    /\ Cardinality(DeliveredAt("ProcessId")) <= 1
    /\ ~pidTimer => Cardinality(DeliveredAt("ProcessId")) = 1
    /\ \A i \in DeliveredAt("Exit") : \E j \in DeliveredAt("ProcessId") : j < i

\* C5: the handle's resize receives (max(cols, 1), max(rows, 1)): a
\* dimension <= 0 arrives as 1, a dimension >= 1 arrives unchanged, and the
\* handle never receives a dimension below 1.
C5_ResizeClamped ==
    /\ call.name = "resize" =>
        /\ ptyCall.name = "resize"
        /\ call.cols <= 0 => ptyCall.cols = 1
        /\ call.cols >= 1 => ptyCall.cols = call.cols
        /\ call.rows <= 0 => ptyCall.rows = 1
        /\ call.rows >= 1 => ptyCall.rows = call.rows
    /\ ptyCall.name = "resize" => (ptyCall.cols >= 1 /\ ptyCall.rows >= 1)

\* resize() was called with a negative cols and a rows above 1.
C5_Witness ==
    /\ call.name = "resize"
    /\ call.cols < 0
    /\ call.rows > 1
    /\ ptyCall.name = "resize"

\* C6: a poll that finds the handle's title equal to the stored title
\* fires nothing; a poll that finds it different fires exactly one Title
\* event with the new value and stores that value; two consecutive Title
\* events never carry the same value.
C6_TitlePollPublishesChanges ==
    /\ [](\A i \in 1..(Len(FiredOn("Title")) - 1) :
            FiredOn("Title")[i].text # FiredOn("Title")[i + 1].text)
    /\ [][(titleNext' # titleNext) =>
            IF currentTitle = ptyTitle
            THEN log' = log /\ currentTitle' = currentTitle
            ELSE /\ Len(log') = Len(log) + 1
                 /\ log'[Len(log')].stream = "Title"
                 /\ log'[Len(log')].text = ptyTitle
                 /\ SubSeq(log', 1, Len(log)) = log
                 /\ currentTitle' = ptyTitle]_vars

\* Two polls have run; one found a changed title and its event was
\* delivered, the other found the title unchanged.
C6_Witness ==
    /\ titleNext = 3 * TitlePollInterval
    /\ Len(FiredOn("Title")) = 2
    /\ DeliveredAt("Title") # {}

\* C7: a consumer that subscribes right after construction has received,
\* by the time the first poll has run, a Title event with the title the
\* handle had at construction.
C7_InitialTitleReceived ==
    titleNext > TitlePollInterval =>
        \E i \in DeliveredAt("Title") : log[i].text = log[1].text

\* C8: the Exit event carries the code the handle's 'exit' event reported
\* before the close timer ran, and the undefined value when there was none.
C8_ExitCarriesReportedCode ==
    \A i \in DeliveredAt("Exit") : log[i].num = reported

\* Exit was delivered with a reported code, after a shutdown() call as well.
C8_Witness ==
    /\ ExitObserved
    /\ reported \in ExitCodes
    /\ shutdownAge # NoTime
    /\ \E i \in DeliveredAt("Exit") : log[i].num = reported

\* C9: once the close callback has run, no step delivers an event on any
\* of the four streams.
C9_NoDeliveryAfterClose ==
    [][Closed => Observed' = Observed]_vars

\* After the close, the pid timer has run and a 'data' event has arrived:
\* both fire() calls are in the log, undelivered.
C9_Witness ==
    /\ Closed
    /\ \E i \in DOMAIN log : log[i].stream = "ProcessId" /\ ~log[i].delivered
    /\ \E k \in DOMAIN rawData : rawData[k].closed /\ ~log[DataPos(k)].delivered

\* C10: once the close callback has run, neither the title-poll timer nor a
\* close timer is pending.
C10_TimersCancelledOnClose ==
    Closed => (titleNext = 0 /\ closeTimers = {})

\* C11: once the close callback has run, no step changes the session state,
\* arms a close timer, kills the handle again or disposes again.
C11_ClosedIsAbsorbing ==
    [][Closed => UNCHANGED <<exitCode, closeTimeout, closeTimers, ptyKills,
                             closeCount, listeners>>]_vars

\* C12: once the close callback has run, input() and resize() do not reach
\* the handle's write and resize.
C12_NoHandleCallAfterClose ==
    Closed => ptyCall.name \notin {"write", "resize"}

\* C16: at most one close timer is pending, and it is the one _closeTimeout
\* names; a step that arms a close timer leaves that timer alone pending,
\* with the full CloseDelay to run.
C16_OneCloseTimerPending ==
    /\ [](Cardinality(closeTimers) <= 1 /\ closeTimers \subseteq {closeTimeout})
    /\ [][(closeTimers' # closeTimers /\ closeTimers' # {}) =>
            closeTimers' = {now + CloseDelay}]_vars

\* The exit was reported, shutdown() was called later, and a chunk has just
\* re-armed the timer once more.
C16_Witness ==
    /\ ptyExited
    /\ shutdownAge > 0
    /\ dataAge = 0
    /\ closeCount = 0
    /\ closeTimers = {now + CloseDelay}
    /\ now >= CloseDelay

\* C18: input() and resize() change nothing but the call the handle
\* receives: exit code, title, close timer and its deadline, the other
\* timers and the log stay as they are, and input() hands its text to
\* write() as it is.
C18_InputResizeFrame ==
    [][(call'.name \in {"input", "resize"}) =>
        /\ UNCHANGED <<now, exitCode, closeTimeout, currentTitle, closeTimers,
                       pidTimer, titleNext, ptyKills, listeners, log,
                       closeCount>>
        /\ call'.name = "input" => ptyCall' = Call("write", call'.text, 0, 0)]_vars

\* input("y") was called while a close timer was pending.
C18_Witness ==
    /\ call = Call("input", "y", 0, 0)
    /\ ptyCall = Call("write", "y", 0, 0)
    /\ closeTimers # {}
    /\ now > 0

\* C19: a close timer exists, the handle is killed or Exit is fired only
\* after an 'exit' event of the handle or a shutdown() call.
C19_DebounceNeedsExitOrShutdown ==
    (closeTimers # {} \/ closeTimeout # NoHandle \/ ptyKills > 0
        \/ Closed \/ Len(FiredOn("Exit")) > 0)
        => (ptyExited \/ shutdownAge # NoTime)

\* Chunks have arrived in the running state, polls have run, more than
\* CloseDelay has passed, and no close timer was ever armed.
C19_Witness ==
    /\ Len(rawData) >= 2
    /\ ~ptyExited
    /\ shutdownAge = NoTime
    /\ closeTimeout = NoHandle
    /\ titleNext > 2 * TitlePollInterval
    /\ now >= 2 * CloseDelay

\* ------------------------------------------------------ claims, continued
\* name is what path.basename leaves of path: it holds no separator, it is
\* followed in path by separators only, and it starts the path or follows
\* a separator; it is empty only when path holds nothing but separators.
IsBaseNameOf(name, path) ==
    /\ \A i \in DOMAIN name : name[i] \notin Separators
    /\ IF name = <<>>
       THEN \A j \in DOMAIN path : path[j] \in Separators
       ELSE \E k \in 0..Len(path) : \E m \in k..Len(path) :
               /\ name = SubSeq(path, k + 1, m)
               /\ \A j \in (m + 1)..Len(path) : path[j] \in Separators
               /\ k = 0 \/ path[k] \in Separators

\* C13: when pty.spawn fails, no handler is registered on a handle, no pid
\* timer, title-poll timer or close timer is pending, nobody listens and no
\* event was fired.
C13_FailedSpawnLeavesNothing ==
    ctor.state = "failed" =>
        /\ handlers = {}
        /\ ~pidTimer
        /\ titleNext = 0
        /\ closeTimers = {}
        /\ closeTimeout = NoHandle
        /\ log = <<>>
        /\ \A s \in Streams : listeners[s] = 0

\* The spawn has failed and the time of every delay of the constructor has
\* passed.
C13_Witness ==
    /\ ctor.state = "failed"
    /\ now >= PidDelay

\* C14: the terminal-type label given to pty.spawn is 'xterm-256color' on
\* every platform but win32, whatever the executable, and the base name of
\* the executable on win32; cwd, env, cols and rows are given as received.
C14_SpawnOptions ==
    ctor.state # "new" =>
        /\ ctor.platform # "win32" => ctor.options.name = XtermLabel
        /\ ctor.platform = "win32" => IsBaseNameOf(ctor.options.name, ctor.executable)
        /\ ctor.options.cwd = ctor.cwd
        /\ ctor.options.env = ctor.env
        /\ ctor.options.cols = ctor.cols
        /\ ctor.options.rows = ctor.rows
        /\ ctor.spawnFile = ctor.executable

\* On win32, an executable given with a directory and a trailing separator,
\* and a column count below 1.
C14_Witness ==
    /\ ctor.state = "ok"
    /\ ctor.platform = "win32"
    /\ ctor.executable = <<"\\", "sh", "/">>
    /\ ctor.options.name = <<"sh">>
    /\ ctor.options.cols < 1

\* C15: the handle is killed only by the close callback, one kill per run,
\* never by shutdown() or by the handlers of 'data' and 'exit'; the close
\* callback kills, then fires Exit, then disposes, so that the Exit of the
\* first run still finds its listener.
C15_KillOnlyInCloseCallback ==
    /\ [][ptyKills' # ptyKills =>
            /\ ptyKills' = ptyKills + 1
            /\ closeCount' = closeCount + 1
            /\ closeTimers' # closeTimers
            /\ shutdownAge' = shutdownAge
            /\ rawData' = rawData
            /\ ptyExited' = ptyExited]_vars
    /\ [](ptyKills = closeCount)
    /\ [](Closed => effects.close = <<"kill", "fire", "dispose">>)
    /\ [](Len(FiredOn("Exit")) > 0 => FiredOn("Exit")[1].delivered)

\* shutdown(), an 'exit' event and a 'data' event have all happened before
\* the close callback ran once.
C15_Witness ==
    /\ closeCount = 1
    /\ ptyKills = 1
    /\ shutdownAge # NoTime
    /\ reported # Undefined
    /\ PendingChunks # {}
    /\ ExitObserved

\* The chunks of the 'data' events that came before the close.
ChunksBeforeClose ==
    LET early == SelectSeq(rawData, LAMBDA d : ~d.closed)
    IN  [k \in DOMAIN early |-> early[k].chunk]

ObservedData == [k \in DOMAIN ObservedOn("Data") |-> ObservedOn("Data")[k].text]

\* C17: the Data events received are exactly the chunks of the 'data'
\* events that came before the close, each once, unchanged and in order;
\* a handler run that re-arms the close timer has fired its chunk first.
C17_DataRelayedInOrder ==
    /\ ObservedData = ChunksBeforeClose
    /\ effects.data # <<>> => effects.data[1] = "fire"
    /\ (Len(rawData) > 0 /\ rawData[Len(rawData)].pending) =>
            effects.data = <<"fire", "clearTimeout", "queueProcessExit">>

\* Two different chunks, the second while the exit was pending, then the
\* close.
C17_Witness ==
    /\ Len(rawData) >= 2
    /\ rawData[1].chunk # rawData[2].chunk
    /\ ~rawData[1].pending
    /\ rawData[2].pending
    /\ Closed
    /\ ExitObserved

\* C20: once the handle has reported its exit or shutdown() was called, and
\* the 'data' events and shutdown() calls stop, the close callback
\* eventually runs: the handle is killed and Exit is fired.
C20_ExitEventuallyCloses ==
    (ptyExited \/ shutdownAge # NoTime)
        ~> (Closed /\ ptyKills > 0 /\ Len(FiredOn("Exit")) > 0)

\* The close came after a shutdown() call and a chunk that re-armed the
\* timer at a later time.
C20_Witness ==
    /\ Closed
    /\ ptyKills > 0
    /\ shutdownAge # NoTime
    /\ dataAge # NoTime
    /\ dataAge < shutdownAge
    /\ ExitObserved

====
